---- MODULE Spec2Model ----
(***************************************************************************)
(* A state-machine model of two components of the conferencing SDK:        *)
(*                                                                         *)
(*   - SubscribeAndReceiveSubscribeAckTask (src/unnamed/part_001): one     *)
(*     subscribe/acknowledge exchange, its cancel() and its interceptor    *)
(*     on the signaling client;                                            *)
(*   - DefaultSimulcastUplinkPolicy                                        *)
(*     (src/src/videouplinkbandwidthpolicy/DefaultSimulcastUplinkPolicy.ts)*)
(*     the simulcast uplink control loop.                                  *)
(*                                                                         *)
(* Each component has its own specifications over one set of variables:    *)
(* SpecTask, FairSpecTask, SpecSubscribe and SpecFix for the task,         *)
(* SpecPolicy, SpecResubscribe, SpecObservers and SpecScenario for the     *)
(* policy; a specification leaves the variables of the other component at  *)
(* their initial values.                                                   *)
(***************************************************************************)
EXTENDS Integers, Sequences, FiniteSets, TLC

VARIABLES
  \* ---- SubscribeAndReceiveSubscribeAckTask and its session context ----
  ctx,                \* browserBehavior flags, enableSimulcast, videoDuplexMode
  tRun,               \* position of run(): idle, waiting, succeeded, failed
  ackPromise,         \* the promise of receiveSubscribeAck()
  ackValue,           \* what the promise settled with (frame or error)
  taskCanceler,       \* this.taskCanceler
  clientObservers,    \* observers registered on the signaling client
  sentSubscribes,     \* the subscribe messages handed to signalingClient.subscribe
  previousSdpOffer,   \* context.previousSdpOffer
  sdpAnswer,          \* context.sdpAnswer
  statusLog,          \* status codes given to handleMeetingSessionStatus
  uplinkDecision,     \* what integrateUplinkPolicyDecision received
  indexCalls,         \* calls made on the video stream index by the task
  removeObserverCalls,\* number of signalingClient.removeObserver calls
  tLastOp,            \* history: the operation that made the last step
  canceledWhilePending,\* history: cancel() rejected the pending wait
  ackAfterCancel,     \* history: a SUBSCRIBE_ACK arrived after that cancel()
  canceledWhileIdle,  \* history: cancel() was called before run()
  \* ---- fixUpSubscriptionOrder as a pure function ----
  fxDirections, fxSubscriptions, fxResult, fxDone,
  fxAgain,            \* the function applied to its own result: done, result
  \* ---- DefaultSimulcastUplinkPolicy ----
  now,                      \* Date.now()
  numSenders,
  shouldDisableSimulcast,
  newQualityMap,
  currentQualityMap,
  newActiveStreams,
  currentActiveStreams,
  lastUplinkBandwidthKbps,
  startTimeMs,
  lastUpdatedMs,
  videoIndex,               \* "null" until updateIndex supplies an index
  currLocalDescriptions,
  nextLocalDescriptions,
  activeStreamsToPublish,   \* "undefined" until the first publication
  observerQueue,            \* the observer Set, in insertion order
  scheduled,                \* callbacks handed to AsyncScheduler.nextTick
  lastFired,                \* history: the last observer callback invoked
  threw,                    \* history: the last policy call raised an error
  wrLog,                    \* history: the last two wantsResubscribe() calls
  mon,                      \* history: monitor of runs that start at HiAndLow
  sc,                       \* history: progress of the four-sample scenario
  lastCall,                 \* history: the policy call made by the last step
  lastTransition            \* history: when wantsResubscribe() last returned true

taskVars == <<ctx, tRun, ackPromise, ackValue, taskCanceler, clientObservers,
              sentSubscribes, previousSdpOffer, sdpAnswer, statusLog,
              uplinkDecision, indexCalls, removeObserverCalls, tLastOp,
              canceledWhilePending, ackAfterCancel,
                 canceledWhileIdle>>

fixVars == <<fxDirections, fxSubscriptions, fxResult, fxDone, fxAgain>>

policyVars == <<now, numSenders, shouldDisableSimulcast, newQualityMap,
                currentQualityMap, newActiveStreams, currentActiveStreams,
                lastUplinkBandwidthKbps, startTimeMs, lastUpdatedMs, videoIndex,
                currLocalDescriptions, nextLocalDescriptions,
                activeStreamsToPublish, observerQueue, scheduled, lastFired,
                threw>>

historyVars == <<wrLog, mon, sc, lastCall, lastTransition>>

vars == <<taskVars, fixVars, policyVars, historyVars>>

\* ------------------------------------------------------------------------
\* Bounds of the model
\* ------------------------------------------------------------------------
MaxSections == 3      \* video media sections of an SDP
MaxSubs == 3          \* entries of context.videoSubscriptions
MaxStreamId == 2      \* stream ids 1..MaxStreamId (0 is "no subscription")
MaxStatus == 2        \* termination events handled in one exchange

\* ------------------------------------------------------------------------
\* SDP, as far as the task looks into it
\* ------------------------------------------------------------------------
Directions == {"sendonly", "recvonly", "inactive"}

SeqsUpTo(S, n) == UNION {[1..k -> S] : k \in 0..n}

\* An SDP: its origin line (rewritten by withUnifiedPlanFormat) and the
\* directions of its video sections, in section order.
SdpTexts == [mozilla : BOOLEAN, dirs : SeqsUpTo(Directions, MaxSections)]

\* localSdp = '' when there is no peer or no local description.
EmptySdp == [mozilla |-> FALSE, dirs |-> <<>>]

\* DefaultSDP.withUnifiedPlanFormat: rewrites the origin line only.
withUnifiedPlanFormat(sdp) == [sdp EXCEPT !.mozilla = TRUE]

\* DefaultSDP.videoSectionDirections
videoSectionDirections(sdp) == sdp.dirs

\* ------------------------------------------------------------------------
\* fixUpSubscriptionOrder (part_001:109-136)
\* ------------------------------------------------------------------------
\* videoSubscriptions.filter(value => value !== 0)
subscriptionsWithoutZero(videoSubscriptions) ==
  SelectSeq(videoSubscriptions, LAMBDA value : value # 0)

\* The for loop over directions: i is the next direction, idx is
\* subscriptionsWithoutZeroIndex, acc is newSubscriptions.
RECURSIVE fixUpLoop(_, _, _, _, _)
fixUpLoop(directions, i, nz, idx, acc) ==
  IF i > Len(directions) THEN acc
  ELSE IF directions[i] = "recvonly"
       THEN IF idx >= Len(nz)
            THEN fixUpLoop(directions, i + 1, nz, idx, Append(acc, 0))
            ELSE fixUpLoop(directions, i + 1, nz, idx + 1, Append(acc, nz[idx + 1]))
       ELSE fixUpLoop(directions, i + 1, nz, idx, Append(acc, 0))

\* Faulty variant: the zero entries of the input are not filtered out.
fixUpSubscriptionOrder_KeepsZeros(sdp, videoSubscriptions) ==
  fixUpLoop(videoSectionDirections(sdp), 1, videoSubscriptions, 0, <<>>)

\* Faulty variant: a receive section reads the filtered array at the
\* section's own position instead of at the running index.
fixUpSubscriptionOrder_PositionalIndex(sdp, videoSubscriptions) ==
  LET directions == videoSectionDirections(sdp)
      nz == subscriptionsWithoutZero(videoSubscriptions)
  IN [i \in 1..Len(directions) |->
        IF directions[i] = "recvonly" /\ i <= Len(nz) THEN nz[i] ELSE 0]

fixUpSubscriptionOrder(sdp, videoSubscriptions) ==
  fixUpLoop(videoSectionDirections(sdp), 1,
            subscriptionsWithoutZero(videoSubscriptions), 0, <<>>)

\* ------------------------------------------------------------------------
\* The session context and the inputs run() reads from it
\* ------------------------------------------------------------------------
\* SdkStreamServiceType
DuplexModes == {"RX", "TX", "DUPLEX"}

Contexts == [requiresUnifiedPlan : BOOLEAN,
             requiresUnifiedPlanMunging : BOOLEAN,
             enableSimulcast : BOOLEAN,
             videoDuplexMode : DuplexModes]

\* context.peer && context.peer.localDescription, with its sdp
PeerDescriptions ==
  {[present |-> FALSE, sdp |-> EmptySdp]} \cup
  {[present |-> TRUE, sdp |-> s] : s \in {t \in SdpTexts : ~t.mozilla}}

\* context.videoCaptureAndEncodeParameter (may be absent)
CaptureParameters ==
  {[present |-> FALSE, frameRate |-> 0, bitrateKbps |-> 0],
   [present |-> TRUE, frameRate |-> 15, bitrateKbps |-> 600]}

\* context.videoSubscriptions
SubscriptionArrays == SeqsUpTo(0..MaxStreamId, MaxSubs)

\* The single encoding pushed to the stream index when simulcast is off
\* (part_001:52-68).
NoDecision == [rid |-> "none", maxBitrate |-> 0, maxFramerate |-> 0, active |-> FALSE]

backwardCompatibilityParam(cap) ==
  LET frameRate == IF cap.present THEN cap.frameRate ELSE 0
      maxEncodeBitrateKbps == IF cap.present THEN cap.bitrateKbps ELSE 0
  IN [rid |-> "hi", maxBitrate |-> maxEncodeBitrateKbps * 1000,
      maxFramerate |-> frameRate, active |-> TRUE]

\* ------------------------------------------------------------------------
\* Signaling events
\* ------------------------------------------------------------------------
CloseCodes == {1000, 4499, 4500, 4599, 4600}
SdpAnswers == {"answerA", "answerB"}

SignalingEvents ==
  {[type |-> "WebSocketClosed", closeCode |-> c, frameType |-> "NONE", sdpAnswer |-> "none"]
     : c \in CloseCodes} \cup
  {[type |-> "WebSocketFailed", closeCode |-> 1000, frameType |-> "NONE", sdpAnswer |-> "none"]} \cup
  {[type |-> "WebSocketOpen", closeCode |-> 0, frameType |-> "NONE", sdpAnswer |-> "none"]} \cup
  {[type |-> "ReceivedSignalFrame", closeCode |-> 0, frameType |-> "INDEX", sdpAnswer |-> "none"]} \cup
  {[type |-> "ReceivedSignalFrame", closeCode |-> 0, frameType |-> "SUBSCRIBE_ACK", sdpAnswer |-> a]
     : a \in SdpAnswers}

\* SignalingClientEvent.isConnectionTerminated
isConnectionTerminated(event) ==
  event.type \in {"WebSocketFailed", "WebSocketError", "WebSocketClosing", "WebSocketClosed"}

\* part_001:158-161
\* Faulty variant: the reserved band includes 4600.
statusCodeFor_InclusiveUpperBound(closeCode) ==
  IF closeCode >= 4500 /\ closeCode <= 4600
  THEN "SignalingInternalServerError"
  ELSE "TaskFailed"

statusCodeFor(closeCode) ==
  IF closeCode >= 4500 /\ closeCode < 4600
  THEN "SignalingInternalServerError"
  ELSE "TaskFailed"

\* A promise settles once: resolve and reject act on a pending promise only.
settle(promise, outcome) == IF promise = "pending" THEN outcome ELSE promise
settledValue(promise, old, value) == IF promise = "pending" THEN value ELSE old

\* ------------------------------------------------------------------------
\* SubscribeAndReceiveSubscribeAckTask
\* ------------------------------------------------------------------------
TaskConstructed ==
  /\ tRun = "idle"
  /\ ackPromise = "none"
  /\ ackValue = "none"
  /\ taskCanceler = "null"
  /\ clientObservers = {}
  /\ sentSubscribes = <<>>
  /\ previousSdpOffer = EmptySdp
  /\ sdpAnswer = "none"
  /\ statusLog = <<>>
  /\ uplinkDecision = NoDecision
  /\ indexCalls = <<>>
  /\ removeObserverCalls = 0
  /\ tLastOp = "new"
  /\ canceledWhilePending = FALSE
  /\ ackAfterCancel = FALSE
  /\ canceledWhileIdle = FALSE

\* Faulty variant: the array is recomputed from the directions alone, one entry per
\* receiving section only.
requestSubscriptions_ReceivingOnly(c, localSdp, videoSubscriptions) ==
  IF c.requiresUnifiedPlan
  THEN SelectSeq(fixUpSubscriptionOrder(localSdp, videoSubscriptions),
                 LAMBDA value : value # 0)
  ELSE videoSubscriptions

\* The video subscriptions run() puts in the request (part_001:73-75).
requestSubscriptions(c, localSdp, videoSubscriptions) ==
  IF c.requiresUnifiedPlan
  THEN fixUpSubscriptionOrder(localSdp, videoSubscriptions)
  ELSE videoSubscriptions

\* run() up to its await: part_001:41-96 and receiveSubscribeAck 138-187.
\* peer, cap and videoSubscriptions are what the session context holds when
\* run() is called.
runOn(peer, cap, videoSubscriptions) ==
  /\ tRun = "idle"
  /\   LET localSdp == IF peer.present
                       THEN IF ctx.requiresUnifiedPlanMunging
                            THEN withUnifiedPlanFormat(peer.sdp)
                            ELSE peer.sdp
                       ELSE EmptySdp
           isSendingStreams == ctx.videoDuplexMode \in {"TX", "DUPLEX"}
           subscribe == [sdp |-> localSdp,
                         videoSubscriptions |->
                           requestSubscriptions(ctx, localSdp, videoSubscriptions),
                         sendStreams |-> isSendingStreams]
       IN /\ uplinkDecision' = IF ~ctx.enableSimulcast
                               THEN backwardCompatibilityParam(cap)
                               ELSE uplinkDecision
          /\ indexCalls' = Append(indexCalls, "subscribeFrameSent")
          /\ previousSdpOffer' = localSdp
          /\ sentSubscribes' = Append(sentSubscribes, subscribe)
  /\ ackPromise' = "pending"
  /\ clientObservers' = clientObservers \cup {"interceptor"}
  /\ taskCanceler' = "interceptor"
  /\ tRun' = "waiting"
  /\ tLastOp' = "run"
  /\ UNCHANGED <<ctx, ackValue, sdpAnswer, statusLog, removeObserverCalls,
                 canceledWhilePending, ackAfterCancel,
                 canceledWhileIdle>>

\* run() on any session context within the bounds.
Run ==
  /\ tRun = "idle"
  /\ \E peer \in PeerDescriptions, cap \in CaptureParameters,
        videoSubscriptions \in SubscriptionArrays :
          runOn(peer, cap, videoSubscriptions)

\* run() on the session contexts used to explore the exchange that follows:
\* the exchange does not read the request again.
ExchangePeers ==
  {[present |-> TRUE, sdp |-> [mozilla |-> FALSE, dirs |-> <<"sendonly", "recvonly">>]]}

ExchangeSubscriptions == {<<2, 1>>}

RunExchange ==
  /\ tRun = "idle"
  /\ \E peer \in ExchangePeers, cap \in CaptureParameters,
        videoSubscriptions \in ExchangeSubscriptions :
          runOn(peer, cap, videoSubscriptions)

\* The continuation of run() after the await (part_001:96-99), or its
\* rejection when the awaited promise was rejected.
RunResume ==
  /\ tRun = "waiting"
  /\ ackPromise \in {"resolved", "rejected"}
  /\ IF ackPromise = "resolved"
     THEN /\ sdpAnswer' = ackValue
          /\ indexCalls' = Append(indexCalls, "integrateSubscribeAckFrame")
          /\ tRun' = "succeeded"
     ELSE /\ tRun' = "failed"
          /\ UNCHANGED <<sdpAnswer, indexCalls>>
  /\ tLastOp' = "resume"
  /\ UNCHANGED <<ctx, ackPromise, ackValue, taskCanceler, clientObservers,
                 sentSubscribes, previousSdpOffer, statusLog, uplinkDecision,
                 removeObserverCalls, canceledWhilePending, ackAfterCancel,
                 canceledWhileIdle>>

\* Faulty variant: the interceptor rejects the wait and stays registered.
InterceptorCancel_StaysRegistered ==
  /\ clientObservers' = clientObservers
  /\ removeObserverCalls' = removeObserverCalls
  /\ ackPromise' = settle(ackPromise, "rejected")
  /\ ackValue' = settledValue(ackPromise, ackValue, "canceled")

\* Interceptor.cancel (part_001:144-151)
InterceptorCancel ==
  /\ clientObservers' = clientObservers \ {"interceptor"}
  /\ removeObserverCalls' = removeObserverCalls + 1
  /\ ackPromise' = settle(ackPromise, "rejected")
  /\ ackValue' = settledValue(ackPromise, ackValue, "canceled")

\* Faulty variant: cancel() runs the teardown without testing this.taskCanceler.
Cancel_WithoutNullTest ==
  /\ InterceptorCancel
  /\ taskCanceler' = "null"
  /\ tLastOp' = "cancel"
  /\ canceledWhilePending' = (canceledWhilePending \/ ackPromise = "pending")
  /\ canceledWhileIdle' = (canceledWhileIdle \/ tRun = "idle")
  /\ UNCHANGED <<ctx, tRun, sentSubscribes, previousSdpOffer, sdpAnswer,
                 statusLog, uplinkDecision, indexCalls, ackAfterCancel>>

\* Faulty variant: cancel() does not clear this.taskCanceler.
Cancel_KeepsCanceler ==
  /\ IF taskCanceler # "null"
     THEN /\ InterceptorCancel
          /\ tLastOp' = "cancel"
          /\ canceledWhilePending' = (canceledWhilePending \/ ackPromise = "pending")
          /\ UNCHANGED taskCanceler
     ELSE /\ tLastOp' = "cancelNoop"
          /\ UNCHANGED <<clientObservers, removeObserverCalls, ackPromise,
                         ackValue, taskCanceler, canceledWhilePending>>
  /\ canceledWhileIdle' = (canceledWhileIdle \/ tRun = "idle")
  /\ UNCHANGED <<ctx, tRun, sentSubscribes, previousSdpOffer, sdpAnswer,
                 statusLog, uplinkDecision, indexCalls, ackAfterCancel>>

\* cancel() (part_001:34-39)
Cancel ==
  /\ IF taskCanceler # "null"
     THEN /\ InterceptorCancel
          /\ taskCanceler' = "null"
          /\ tLastOp' = "cancel"
          /\ canceledWhilePending' = (canceledWhilePending \/ ackPromise = "pending")
     ELSE /\ tLastOp' = "cancelNoop"
          /\ UNCHANGED <<clientObservers, removeObserverCalls, ackPromise,
                         ackValue, taskCanceler, canceledWhilePending>>
  /\ canceledWhileIdle' = (canceledWhileIdle \/ tRun = "idle")
  /\ UNCHANGED <<ctx, tRun, sentSubscribes, previousSdpOffer, sdpAnswer,
                 statusLog, uplinkDecision, indexCalls, ackAfterCancel>>

\* Interceptor.handleSignalingClientEvent (part_001:153-181)
\* Faulty variant: the frame type is not tested, every received frame is
\* taken for the acknowledgement.
handleSignalingClientEvent_AnyFrameResolves(event) ==
  IF isConnectionTerminated(event)
  THEN /\ Len(statusLog) < MaxStatus
       /\ statusLog' = Append(statusLog,
                              [statusCode |-> statusCodeFor(event.closeCode),
                               closeCode |-> event.closeCode])
       /\ tLastOp' = "terminated"
       /\ UNCHANGED <<clientObservers, removeObserverCalls, ackPromise, ackValue>>
  ELSE IF event.type # "ReceivedSignalFrame"
       THEN /\ tLastOp' = "ignored"
            /\ UNCHANGED <<statusLog, clientObservers, removeObserverCalls,
                           ackPromise, ackValue>>
       ELSE /\ clientObservers' = clientObservers \ {"interceptor"}
            /\ removeObserverCalls' = removeObserverCalls + 1
            /\ ackPromise' = settle(ackPromise, "resolved")
            /\ ackValue' = settledValue(ackPromise, ackValue, event.sdpAnswer)
            /\ tLastOp' = "ack"
            /\ UNCHANGED statusLog

handleSignalingClientEvent(event) ==
  IF isConnectionTerminated(event)
  THEN /\ Len(statusLog) < MaxStatus
       /\ statusLog' = Append(statusLog,
                              [statusCode |-> statusCodeFor(event.closeCode),
                               closeCode |-> event.closeCode])
       /\ tLastOp' = "terminated"
       /\ UNCHANGED <<clientObservers, removeObserverCalls, ackPromise, ackValue>>
  ELSE IF event.type # "ReceivedSignalFrame" \/ event.frameType # "SUBSCRIBE_ACK"
       THEN /\ tLastOp' = "ignored"
            /\ UNCHANGED <<statusLog, clientObservers, removeObserverCalls,
                           ackPromise, ackValue>>
       ELSE /\ clientObservers' = clientObservers \ {"interceptor"}
            /\ removeObserverCalls' = removeObserverCalls + 1
            /\ ackPromise' = settle(ackPromise, "resolved")
            /\ ackValue' = settledValue(ackPromise, ackValue, event.sdpAnswer)
            /\ tLastOp' = "ack"
            /\ UNCHANGED statusLog

\* The signaling client dispatches an event to the observers registered on
\* it; an event that finds the interceptor unregistered does not reach it.
Deliver ==
  /\ \E event \in SignalingEvents :
       /\ IF "interceptor" \in clientObservers
          THEN handleSignalingClientEvent(event)
          ELSE /\ tLastOp' = "undelivered"
               /\ UNCHANGED <<statusLog, clientObservers, removeObserverCalls,
                              ackPromise, ackValue>>
       /\ ackAfterCancel' = (ackAfterCancel \/
                               (canceledWhilePending /\ event.frameType = "SUBSCRIBE_ACK"))
  /\ UNCHANGED <<ctx, tRun, taskCanceler, sentSubscribes, previousSdpOffer,
                 sdpAnswer, uplinkDecision, indexCalls, canceledWhilePending,
                 canceledWhileIdle>>

\* ------------------------------------------------------------------------
\* fixUpSubscriptionOrder applied to arbitrary inputs
\* ------------------------------------------------------------------------
FixParked ==
  /\ fxDirections = <<>>
  /\ fxSubscriptions = <<>>
  /\ fxResult = <<>>
  /\ fxDone = FALSE
  /\ fxAgain = [done |-> FALSE, result |-> <<>>]

FixInputs ==
  /\ fxDirections \in SeqsUpTo(Directions, MaxSections)
  /\ fxSubscriptions \in SubscriptionArrays
  /\ fxResult = <<>>
  /\ fxDone = FALSE
  /\ fxAgain = [done |-> FALSE, result |-> <<>>]

FixApply ==
  /\ ~fxDone
  /\ fxResult' = fixUpSubscriptionOrder([mozilla |-> FALSE, dirs |-> fxDirections],
                                        fxSubscriptions)
  /\ fxDone' = TRUE
  /\ UNCHANGED <<fxDirections, fxSubscriptions, fxAgain>>

\* fixUpSubscriptionOrder called on its own result with the same SDP
FixApplyAgain ==
  /\ fxDone
  /\ ~fxAgain.done
  /\ fxAgain' = [done |-> TRUE,
                 result |-> fixUpSubscriptionOrder(
                              [mozilla |-> FALSE, dirs |-> fxDirections], fxResult)]
  /\ UNCHANGED <<fxDirections, fxSubscriptions, fxResult, fxDone>>

\* ------------------------------------------------------------------------
\* DefaultSimulcastUplinkPolicy: constants and pure functions
\* ------------------------------------------------------------------------
defaultUplinkBandwidthKbps == 1200
startupDurationMs == 6000
holdDownDurationMs == 4000
kHiDisabledRate == 700
kMidDisabledRate == 240

\* Bounds of the clock: it starts at ClockStartMs, advances by TickMs and
\* stops at MaxTimeMs.
ClockStartMs == 1000
TickMs == 2000
MaxTimeMs == 15000
MaxScheduled == 2     \* callbacks waiting in the scheduler

\* Bounds of the clock of the four-sample scenario.
ScenarioTickMs == 1000
MaxScenarioTimeMs == 20000

\* enum ActiveStreams
ActiveStreams == {"kHi", "kHiAndLow", "kMidAndLow", "kLow"}

\* SimulcastTransceiverController.NAME_ARR_ASCENDING
NAME_ARR_ASCENDING == <<"low", "mid", "hi">>

RidNames == {NAME_ARR_ASCENDING[i] : i \in 1..Len(NAME_ARR_ASCENDING)}

Max(a, b) == IF a >= b THEN a ELSE b

\* Faulty variant: the scale starts at 4 also when simulcast is disabled.
scaleQuarters_IgnoresDisable(i, disable) ==
  IF i = 1 THEN 16 ELSE IF i = 2 THEN 8 ELSE 4

\* The scale of layer i, in quarters: it starts at 4 (or 1 when simulcast is
\* disabled) and is halved per layer; scaleResolutionDownBy is
\* Math.max(scale, 1).
scaleQuarters(i, disable) ==
  LET start == IF disable THEN 4 ELSE 16
  IN IF i = 1 THEN start ELSE IF i = 2 THEN start \div 2 ELSE start \div 4

\* Faulty variant: every layer is marked active.
fillEncodingParamWithBitrates_AlwaysActive(bitratesKbps, disable) ==
  [ridName \in RidNames |->
     LET i == CHOOSE j \in 1..Len(NAME_ARR_ASCENDING) : NAME_ARR_ASCENDING[j] = ridName
     IN [rid |-> ridName,
         active |-> TRUE,
         scaleResolutionDownBy |-> Max(scaleQuarters(i, disable), 4) \div 4,
         maxBitrate |-> bitratesKbps[i] * 1000]]

\* fillEncodingParamWithBitrates (lines 341-362); disable is
\* this.shouldDisableSimulcast at the time of the call.
fillEncodingParamWithBitrates(bitratesKbps, disable) ==
  [ridName \in RidNames |->
     LET i == CHOOSE j \in 1..Len(NAME_ARR_ASCENDING) : NAME_ARR_ASCENDING[j] = ridName
     IN [rid |-> ridName,
         active |-> bitratesKbps[i] > 0,
         scaleResolutionDownBy |-> Max(scaleQuarters(i, disable), 4) \div 4,
         maxBitrate |-> bitratesKbps[i] * 1000]]

\* encodingParametersEqual (lines 288-303), on two maps
encodingParametersEqual(newMap, currentMap) ==
  \A i \in 1..Len(NAME_ARR_ASCENDING) :
    newMap[NAME_ARR_ASCENDING[i]] = currentMap[NAME_ARR_ASCENDING[i]]

\* Faulty variant: the increase threshold of Hi is the recorded uplink itself.
hysteresisIncrease_MissingPlusOne(current, lastUplink) ==
  IF current = "kHi" THEN lastUplink
  ELSE IF current = "kHiAndLow" THEN 2400
  ELSE IF current = "kMidAndLow" THEN 1000
  ELSE 300

\* The hysteresis thresholds of the current layer set (lines 111-126).
hysteresisIncrease(current, lastUplink) ==
  IF current = "kHi" THEN lastUplink + 1
  ELSE IF current = "kHiAndLow" THEN 2400
  ELSE IF current = "kMidAndLow" THEN 1000
  ELSE 300

\* Faulty variant: no layer set has a decrease threshold.
hysteresisDecrease_Never(current) == 0

hysteresisDecrease(current) ==
  IF current = "kHi" THEN 0
  ELSE IF current = "kHiAndLow" THEN kHiDisabledRate
  ELSE IF current = "kMidAndLow" THEN kMidDisabledRate
  ELSE 0

\* The gate of calculateEncodingParameters (lines 128-132).
gatePasses(numSendersChanged, current, lastUplink) ==
  \/ numSendersChanged
  \/ lastUplink >= hysteresisIncrease(current, lastUplink)
  \/ lastUplink <= hysteresisDecrease(current)

\* Faulty variant: HiAndLow needs fewer than 4 senders.
decideStreams_ExclusiveSenderLimit(disable, senders, lastUplink) ==
  IF disable
  THEN [streams |-> "kHi", bitrates |-> <<0, 1200, 0>>]
  ELSE IF senders < 4 /\ lastUplink >= kHiDisabledRate
  THEN [streams |-> "kHiAndLow", bitrates |-> <<300, 0, 1200>>]
  ELSE IF lastUplink >= kMidDisabledRate
  THEN [streams |-> "kMidAndLow",
        bitrates |-> <<IF lastUplink >= 350 THEN 200 ELSE 150,
                       IF senders <= 6 THEN 600 ELSE 350,
                       0>>]
  ELSE [streams |-> "kLow", bitrates |-> <<300, 0, 0>>]

\* The layer set and the bitrates [low, mid, hi] chosen behind the gate
\* (lines 133-185).
decideStreams(disable, senders, lastUplink) ==
  IF disable
  THEN [streams |-> "kHi", bitrates |-> <<0, 1200, 0>>]
  ELSE IF senders <= 4 /\ lastUplink >= kHiDisabledRate
  THEN [streams |-> "kHiAndLow", bitrates |-> <<300, 0, 1200>>]
  ELSE IF lastUplink >= kMidDisabledRate
  THEN [streams |-> "kMidAndLow",
        bitrates |-> <<IF lastUplink >= 350 THEN 200 ELSE 150,
                       IF senders <= 6 THEN 600 ELSE 350,
                       0>>]
  ELSE [streams |-> "kLow", bitrates |-> <<300, 0, 0>>]

\* calculateEncodingParameters (lines 101-202) on the fields it reads, as
\* its caller left them: index, disable, senders and lastUplink are
\* this.videoIndex, this.shouldDisableSimulcast, this.numSenders and
\* this.lastUplinkBandwidthKbps. It gives the new proposal and whether the
\* call raised: building the log line reads this.videoIndex, which is null
\* until updateIndex was called.
calculateEncodingParameters(numSendersChanged, index, disable, senders, lastUplink) ==
  IF gatePasses(numSendersChanged, currentActiveStreams, lastUplink)
  THEN LET d == decideStreams(disable, senders, lastUplink)
           m == fillEncodingParamWithBitrates(d.bitrates, disable)
       IN [streams |-> d.streams, map |-> m,
           raised |-> ~encodingParametersEqual(m, currentQualityMap) /\ index = "null"]
  ELSE [streams |-> newActiveStreams, map |-> newQualityMap, raised |-> FALSE]

\* getEncodingSimulcastLayer (lines 379-390)
getEncodingSimulcastLayer(activeStreams) ==
  IF activeStreams = "kHi" THEN "High"
  ELSE IF activeStreams = "kHiAndLow" THEN "LowAndHigh"
  ELSE IF activeStreams = "kMidAndLow" THEN "LowAndMedium"
  ELSE "Low"

\* ------------------------------------------------------------------------
\* DefaultSimulcastUplinkPolicy: inputs
\* ------------------------------------------------------------------------
\* ConnectionMetrics.uplinkKbps: a number or NaN
SampleKbps == {100, 650, 700, 750, 1200}

Metrics ==
  {[isNaN |-> TRUE, uplinkKbps |-> 0]} \cup
  {[isNaN |-> FALSE, uplinkKbps |-> k] : k \in SampleKbps}

\* What updateIndex reads from the stream index.
IndexReadings ==
  [publishersExcludingSelf : {2, 4}, participants : {-1, 0, 2, 3}]

\* videoIndex.localStreamDescriptions(), as far as wantsResubscribe reads it
StreamDescriptions == [streamId : {0, 1}, disabledByWebRTC : BOOLEAN]

DescriptionLists == SeqsUpTo(StreamDescriptions, 1)

\* One local stream whose disabledByWebRTC flag is off or on.
TrackedDescriptions ==
  {<<[streamId |-> 1, disabledByWebRTC |-> d]>> : d \in BOOLEAN}

Observers == {"a", "b"}

\* lastFired: the observer and the layers of the last callback invoked,
\* whether that observer was in the observer set at that moment, and the
\* observer of the last callback that was dropped.
NotFired ==
  [observer |-> "none", layers |-> "none", registered |-> TRUE, skipped |-> "none"]

\* ------------------------------------------------------------------------
\* DefaultSimulcastUplinkPolicy: operations
\* ------------------------------------------------------------------------
\* The field initialisers and the constructor (lines 37-62).
PolicyConstructed ==
  /\ now = ClockStartMs
  /\ numSenders = 0
  /\ shouldDisableSimulcast = FALSE
  /\ newQualityMap = fillEncodingParamWithBitrates(<<300, 0, 1200>>, FALSE)
  /\ currentQualityMap = fillEncodingParamWithBitrates(<<300, 0, 1200>>, FALSE)
  /\ newActiveStreams = "kHiAndLow"
  /\ currentActiveStreams = "kHiAndLow"
  /\ lastUplinkBandwidthKbps = defaultUplinkBandwidthKbps
  /\ startTimeMs = 0
  /\ lastUpdatedMs = ClockStartMs
  /\ videoIndex = "null"
  /\ currLocalDescriptions = <<>>
  /\ nextLocalDescriptions = <<>>
  /\ activeStreamsToPublish = "undefined"
  /\ observerQueue = <<>>
  /\ scheduled = <<>>
  /\ lastFired = NotFired
  /\ threw = FALSE

\* Faulty variant: the hold-down time is not doubled in Low.
holdTime_Undoubled(current, uplinkKbps) ==
  IF \/ (current = "kMidAndLow" /\ uplinkKbps <= kMidDisabledRate)
     \/ (current = "kHiAndLow" /\ uplinkKbps <= kHiDisabledRate)
  THEN holdDownDurationMs \div 2
  ELSE holdDownDurationMs

\* The hold-down time of a sample (lines 83-93).
holdTime(current, uplinkKbps) ==
  IF current = "kLow" THEN holdDownDurationMs * 2
  ELSE IF \/ (current = "kMidAndLow" /\ uplinkKbps <= kMidDisabledRate)
          \/ (current = "kHiAndLow" /\ uplinkKbps <= kHiDisabledRate)
  THEN holdDownDurationMs \div 2
  ELSE holdDownDurationMs

\* Faulty variant: the startup period includes its last instant.
effectiveUplink_InclusiveStartup(start, uplinkKbps) ==
  IF now - start <= startupDurationMs
  THEN defaultUplinkBandwidthKbps
  ELSE uplinkKbps

\* The bandwidth recorded for a sample (lines 74-78).
effectiveUplink(start, uplinkKbps) ==
  IF now - start < startupDurationMs
  THEN defaultUplinkBandwidthKbps
  ELSE uplinkKbps

\* Faulty variant: the hold-down return is missing.
heldDown_Never(current, uplinkKbps) == FALSE

\* Whether a sample at this moment is held down (line 94).
heldDown(current, uplinkKbps) ==
  now < lastUpdatedMs + holdTime(current, uplinkKbps)

\* Faulty variant: the isNaN test is missing and NaN is taken as 0.
updateConnectionMetric_WithoutNaNTest(metric) ==
  /\ startTimeMs' = IF startTimeMs = 0 THEN now ELSE startTimeMs
  /\ lastUplinkBandwidthKbps' = effectiveUplink(startTimeMs', metric.uplinkKbps)
  /\ IF heldDown(currentActiveStreams, metric.uplinkKbps)
     THEN /\ threw' = FALSE
          /\ UNCHANGED <<newActiveStreams, newQualityMap>>
     ELSE LET c == calculateEncodingParameters(
                     FALSE, videoIndex, shouldDisableSimulcast, numSenders,
                     lastUplinkBandwidthKbps')
          IN /\ newActiveStreams' = c.streams
             /\ newQualityMap' = c.map
             /\ threw' = c.raised

\* updateConnectionMetric (lines 64-99)
updateConnectionMetric(metric) ==
  IF metric.isNaN
  THEN /\ threw' = FALSE
       /\ UNCHANGED <<startTimeMs, lastUplinkBandwidthKbps, newActiveStreams,
                      newQualityMap>>
  ELSE /\ startTimeMs' = IF startTimeMs = 0 THEN now ELSE startTimeMs
       /\ lastUplinkBandwidthKbps' = effectiveUplink(startTimeMs', metric.uplinkKbps)
       /\ IF heldDown(currentActiveStreams, metric.uplinkKbps)
          THEN /\ threw' = FALSE
               /\ UNCHANGED <<newActiveStreams, newQualityMap>>
          ELSE LET c == calculateEncodingParameters(
                          FALSE, videoIndex, shouldDisableSimulcast, numSenders,
                          lastUplinkBandwidthKbps')
               IN /\ newActiveStreams' = c.streams
                  /\ newQualityMap' = c.map
                  /\ threw' = c.raised

\* Faulty variant: updateConnectionMetric also commits the proposal.
metricFrame_CommitsProposal ==
  /\ currentActiveStreams' = newActiveStreams'
  /\ currentQualityMap' = newQualityMap'
  /\ UNCHANGED <<now, numSenders, shouldDisableSimulcast, lastUpdatedMs,
                 videoIndex, currLocalDescriptions, nextLocalDescriptions,
                 activeStreamsToPublish, observerQueue, scheduled, lastFired>>

metricFrame ==
  UNCHANGED <<now, numSenders, shouldDisableSimulcast, currentQualityMap,
              currentActiveStreams, lastUpdatedMs, videoIndex,
              currLocalDescriptions, nextLocalDescriptions,
              activeStreamsToPublish, observerQueue, scheduled, lastFired>>

UpdateConnectionMetric ==
  \E metric \in Metrics : updateConnectionMetric(metric) /\ metricFrame

\* Faulty variant: a change of the simulcast-disable flag does not force
\* the recalculation.
updateIndex_ForcedBySendersOnly(reading) ==
  LET senders == reading.publishersExcludingSelf + 1
      numSendersChanged == senders # numSenders
      numParticipants == reading.participants
      newShouldDisableSimulcast == numParticipants >= 0 /\ numParticipants <= 2
  IN /\ numSenders' = senders
     /\ shouldDisableSimulcast' = newShouldDisableSimulcast
     /\ videoIndex' = "index"
     /\ UNCHANGED lastUplinkBandwidthKbps
     /\ LET c == calculateEncodingParameters(
                   numSendersChanged, "index",
                   newShouldDisableSimulcast, senders, lastUplinkBandwidthKbps)
        IN /\ newActiveStreams' = c.streams
           /\ newQualityMap' = c.map
           /\ threw' = c.raised

\* updateIndex (lines 225-250)
updateIndex(reading) ==
  LET senders == reading.publishersExcludingSelf + 1
      numSendersChanged == senders # numSenders
      numParticipants == reading.participants
      newShouldDisableSimulcast == numParticipants >= 0 /\ numParticipants <= 2
      shouldDisableSimulcastChanged == shouldDisableSimulcast # newShouldDisableSimulcast
  IN /\ numSenders' = senders
     /\ shouldDisableSimulcast' = newShouldDisableSimulcast
     /\ videoIndex' = "index"
     /\ UNCHANGED lastUplinkBandwidthKbps
     /\ LET c == calculateEncodingParameters(
                   numSendersChanged \/ shouldDisableSimulcastChanged, "index",
                   newShouldDisableSimulcast, senders, lastUplinkBandwidthKbps)
        IN /\ newActiveStreams' = c.streams
           /\ newQualityMap' = c.map
           /\ threw' = c.raised

indexFrame ==
  UNCHANGED <<now, currentQualityMap, currentActiveStreams, startTimeMs,
              lastUpdatedMs, currLocalDescriptions, nextLocalDescriptions,
              activeStreamsToPublish, observerQueue, scheduled, lastFired>>

UpdateIndex ==
  \E reading \in IndexReadings : updateIndex(reading) /\ indexFrame

\* The loop of wantsResubscribe (lines 256-271): a stream with a truthy id
\* that was known before and whose disabledByWebRTC differs.
\* findIndex gives the first earlier description with that stream id.
disabledByWebRTCFlipped(next, curr) ==
  \E i \in 1..Len(next) :
    /\ next[i].streamId # 0
    /\ \E p \in 1..Len(curr) :
         /\ curr[p].streamId = next[i].streamId
         /\ \A q \in 1..(p - 1) : curr[q].streamId # next[i].streamId
         /\ next[i].disabledByWebRTC # curr[p].disabledByWebRTC

\* Faulty variant: the negation of encodingParametersEqual() is missing.
constraintDiff_MissingNegation(descriptions) ==
  \/ encodingParametersEqual(newQualityMap, currentQualityMap)
  \/ disabledByWebRTCFlipped(descriptions, currLocalDescriptions)

\* What wantsResubscribe returns (lines 253-272).
constraintDiff(descriptions) ==
  \/ ~encodingParametersEqual(newQualityMap, currentQualityMap)
  \/ disabledByWebRTCFlipped(descriptions, currLocalDescriptions)

\* wantsResubscribe (lines 252-279); descriptions is what
\* this.videoIndex.localStreamDescriptions() returns. Without an index the
\* call raises before it changes anything.
wantsResubscribe(descriptions) ==
  IF videoIndex = "null"
  THEN /\ threw' = TRUE
       /\ UNCHANGED <<nextLocalDescriptions, currLocalDescriptions, lastUpdatedMs>>
  ELSE /\ threw' = FALSE
       /\ nextLocalDescriptions' = descriptions
       /\ lastUpdatedMs' = IF constraintDiff(descriptions) THEN now ELSE lastUpdatedMs
       /\ currLocalDescriptions' = descriptions

wantsFrame ==
  UNCHANGED <<now, numSenders, shouldDisableSimulcast, newQualityMap,
              currentQualityMap, newActiveStreams, currentActiveStreams,
              lastUplinkBandwidthKbps, startTimeMs, videoIndex,
              activeStreamsToPublish, observerQueue, scheduled, lastFired>>

WantsResubscribe ==
  \E descriptions \in DescriptionLists :
    wantsResubscribe(descriptions) /\ wantsFrame

\* forEachObserver called by publishEncodingSimulcastLayer (lines 392-399,
\* 411-419): one callback per observer of the set, in its order.
callbacksFor(queue, layers) ==
  [i \in 1..Len(queue) |-> [observer |-> queue[i], layers |-> layers]]

\* Faulty variant: a commit that changes the parameter map publishes too.
ChooseEncodingParameters_PublishesOnMapChange ==
  /\ Len(scheduled) + Len(observerQueue) <= MaxScheduled
  /\ currentQualityMap' = newQualityMap
  /\ currentActiveStreams' = newActiveStreams
  /\ IF activeStreamsToPublish # newActiveStreams \/ currentQualityMap # newQualityMap
     THEN /\ activeStreamsToPublish' = newActiveStreams
          /\ scheduled' = scheduled \o
               callbacksFor(observerQueue, getEncodingSimulcastLayer(newActiveStreams))
     ELSE UNCHANGED <<activeStreamsToPublish, scheduled>>
  /\ threw' = FALSE
  /\ UNCHANGED <<now, numSenders, shouldDisableSimulcast, newQualityMap,
                 newActiveStreams, lastUplinkBandwidthKbps, startTimeMs,
                 lastUpdatedMs, videoIndex, currLocalDescriptions,
                 nextLocalDescriptions, observerQueue, lastFired>>

\* chooseEncodingParameters (lines 215-223)
ChooseEncodingParameters ==
  /\ Len(scheduled) + Len(observerQueue) <= MaxScheduled
  /\ currentQualityMap' = newQualityMap
  /\ currentActiveStreams' = newActiveStreams
  /\ IF activeStreamsToPublish # newActiveStreams
     THEN /\ activeStreamsToPublish' = newActiveStreams
          /\ scheduled' = scheduled \o
               callbacksFor(observerQueue, getEncodingSimulcastLayer(newActiveStreams))
     ELSE UNCHANGED <<activeStreamsToPublish, scheduled>>
  /\ threw' = FALSE
  /\ UNCHANGED <<now, numSenders, shouldDisableSimulcast, newQualityMap,
                 newActiveStreams, lastUplinkBandwidthKbps, startTimeMs,
                 lastUpdatedMs, videoIndex, currLocalDescriptions,
                 nextLocalDescriptions, observerQueue, lastFired>>

InQueue(observer) == \E i \in 1..Len(observerQueue) : observerQueue[i] = observer

observerFrame ==
  UNCHANGED <<now, numSenders, shouldDisableSimulcast, newQualityMap,
              currentQualityMap, newActiveStreams, currentActiveStreams,
              lastUplinkBandwidthKbps, startTimeMs, lastUpdatedMs, videoIndex,
              currLocalDescriptions, nextLocalDescriptions,
              activeStreamsToPublish>>

\* addObserver (lines 401-404): Set.add
AddObserver ==
  /\ \E observer \in Observers :
       observerQueue' = IF InQueue(observer) THEN observerQueue
                        ELSE Append(observerQueue, observer)
  /\ threw' = FALSE
  /\ UNCHANGED <<scheduled, lastFired>>
  /\ observerFrame

\* removeObserver (lines 406-409): Set.delete
RemoveObserver ==
  /\ \E observer \in Observers :
       observerQueue' = SelectSeq(observerQueue, LAMBDA o : o # observer)
  /\ threw' = FALSE
  /\ UNCHANGED <<scheduled, lastFired>>
  /\ observerFrame

\* Faulty variant: the callback does not test observerQueue.has(observer).
callbackInvokes_WithoutCheck(observer) == TRUE

\* Whether the scheduled callback invokes the observer (line 414).
callbackInvokes(observer) == InQueue(observer)

\* The scheduler runs the oldest callback (lines 413-417).
Dispatch ==
  /\ scheduled # <<>>
  /\ scheduled' = Tail(scheduled)
  /\ lastFired' = IF callbackInvokes(Head(scheduled).observer)
                  THEN [lastFired EXCEPT
                          !.observer = Head(scheduled).observer,
                          !.layers = Head(scheduled).layers,
                          !.registered = InQueue(Head(scheduled).observer)]
                  ELSE [lastFired EXCEPT !.skipped = Head(scheduled).observer]
  /\ UNCHANGED <<observerQueue, threw>>
  /\ observerFrame

\* Time passes: the clock advances by step, up to limit.
advance(step, limit) ==
  /\ now + step <= limit
  /\ now' = now + step
  /\ UNCHANGED <<numSenders, shouldDisableSimulcast, newQualityMap,
                 currentQualityMap, newActiveStreams, currentActiveStreams,
                 lastUplinkBandwidthKbps, startTimeMs, lastUpdatedMs, videoIndex,
                 currLocalDescriptions, nextLocalDescriptions,
                 activeStreamsToPublish, observerQueue, scheduled, lastFired,
                 threw>>

Tick == advance(TickMs, MaxTimeMs)

\* ------------------------------------------------------------------------
\* History variables
\* ------------------------------------------------------------------------
\* wrLog: the last two wantsResubscribe() calls that returned, each with the
\* value returned, whether the call saw a disabledByWebRTC flip, and whether
\* since the call before the proposed map changed (touched) or
\* chooseEncodingParameters ran (chosen); uncommitted tells that the proposed
\* map changed after the last chooseEncodingParameters.
\* mon: for runs that start with current = proposed = HiAndLow and simulcast
\* enabled: whether another call than updateConnectionMetric and
\* chooseEncodingParameters was made (excluded), whether a sample <= 700 kbps
\* arrived outside the hold-down window (lowOutside), and whether one
\* arrived inside it after the startup period (heldLow).
\* sc: the four-sample scenario: samples fed, whether the last sample was
\* followed by chooseEncodingParameters, when it was fed, and the committed
\* layer set after each sample.
\* lastCall: when the last step was an updateConnectionMetric or updateIndex
\* call, its argument and the fields of the policy as they were before it.
\* lastTransition: the construction time, or the time of the last
\* wantsResubscribe() call that returned true.
NoCall == [op |-> "none"]

PolicyFields ==
  [numSenders |-> numSenders,
   shouldDisableSimulcast |-> shouldDisableSimulcast,
   newQualityMap |-> newQualityMap,
   currentQualityMap |-> currentQualityMap,
   newActiveStreams |-> newActiveStreams,
   currentActiveStreams |-> currentActiveStreams,
   lastUplinkBandwidthKbps |-> lastUplinkBandwidthKbps,
   startTimeMs |-> startTimeMs,
   lastUpdatedMs |-> lastUpdatedMs,
   videoIndex |-> videoIndex,
   currLocalDescriptions |-> currLocalDescriptions,
   nextLocalDescriptions |-> nextLocalDescriptions,
   activeStreamsToPublish |-> activeStreamsToPublish,
   observerQueue |-> observerQueue]

HistoryEmpty ==
  /\ lastCall = NoCall
  /\ lastTransition = ClockStartMs
  /\ wrLog = [calls |-> <<>>, touched |-> FALSE, chosen |-> FALSE,
              uncommitted |-> FALSE]
  /\ mon = [excluded |-> FALSE, lowOutside |-> FALSE, heldLow |-> FALSE]
  /\ sc = [step |-> 0, chosen |-> TRUE, lastSampleAt |-> 0, log |-> <<>>]

\* The hold-down window as the specification states it: 8000 ms when the
\* current layer set is Low, 2000 ms for a sample at or below the disable
\* rate of the current layer set, 4000 ms otherwise, counted from the last
\* time wantsResubscribe() returned true (or from construction).
InsideHoldDown(uplinkKbps) ==
  now < lastUpdatedMs +
        (IF currentActiveStreams = "kLow" THEN 8000
         ELSE IF \/ (currentActiveStreams = "kMidAndLow" /\ uplinkKbps <= 240)
                 \/ (currentActiveStreams = "kHiAndLow" /\ uplinkKbps <= 700)
         THEN 2000
         ELSE 4000)

Steady ==
  /\ currentActiveStreams = "kHiAndLow"
  /\ newActiveStreams = "kHiAndLow"
  /\ ~shouldDisableSimulcast

\* The monitor after a step: call is "sample", "quiet" (chooseEncodingParameters,
\* a NaN metric, time passing) or "other".
monAfter(call, uplinkKbps) ==
  mon' = IF Steady' /\ (call = "other" \/ ~Steady)
         THEN [excluded |-> FALSE, lowOutside |-> FALSE, heldLow |-> FALSE]
         ELSE [excluded |-> mon.excluded \/ call = "other",
               lowOutside |->
                 \/ mon.lowOutside
                 \/ /\ call = "sample"
                    /\ uplinkKbps <= 700
                    /\ ~InsideHoldDown(uplinkKbps),
               heldLow |->
                 \/ mon.heldLow
                 \/ /\ call = "sample"
                    /\ uplinkKbps <= 700
                    /\ InsideHoldDown(uplinkKbps)
                    /\ now - startTimeMs' >= 6000]

\* The call log after a step that is not a wantsResubscribe() call.
wrAfterStep(isChoose) ==
  wrLog' = [wrLog EXCEPT
              !.touched = @ \/ newQualityMap' # newQualityMap,
              !.chosen = @ \/ isChoose,
              !.uncommitted = IF isChoose THEN FALSE
                              ELSE @ \/ newQualityMap' # newQualityMap]

\* The call log after wantsResubscribe(descriptions); a call that raised
\* returned nothing.
wrAfterCall(descriptions) ==
  wrLog' = IF threw' THEN wrLog
           ELSE [wrLog EXCEPT
                   !.calls =
                     (IF @ = <<>> THEN <<>> ELSE <<@[Len(@)]>>) \o
                     <<[ret |-> constraintDiff(descriptions),
                        flip |-> disabledByWebRTCFlipped(descriptions,
                                                         currLocalDescriptions),
                        touched |-> wrLog.touched,
                        chosen |-> wrLog.chosen,
                        uncommitted |-> wrLog.uncommitted]>>,
                   !.touched = FALSE,
                   !.chosen = FALSE]


\* ------------------------------------------------------------------------
\* Specifications
\* ------------------------------------------------------------------------
TaskParked ==
  ctx = [requiresUnifiedPlan |-> TRUE, requiresUnifiedPlanMunging |-> FALSE,
         enableSimulcast |-> FALSE, videoDuplexMode |-> "RX"]

\* The uplink policy under samples, index updates, resubscription queries,
\* commits and the passing of time.
InitPolicy ==
  TaskParked /\ TaskConstructed /\ FixParked /\ PolicyConstructed /\ HistoryEmpty

NextPolicy ==
  \/ /\ \E metric \in Metrics :
          /\ updateConnectionMetric(metric)
          /\ metricFrame
          /\ IF metric.isNaN THEN monAfter("quiet", 0)
             ELSE monAfter("sample", metric.uplinkKbps)
     /\ UNCHANGED <<taskVars, fixVars, wrLog, sc, lastCall,
                    lastTransition>>
  \/ /\ UpdateIndex
     /\ monAfter("other", 0)
     /\ UNCHANGED <<taskVars, fixVars, wrLog, sc, lastCall,
                    lastTransition>>
  \/ /\ \E descriptions \in TrackedDescriptions :
          wantsResubscribe(descriptions) /\ wantsFrame
     /\ monAfter("other", 0)
     /\ UNCHANGED <<taskVars, fixVars, wrLog, sc, lastCall,
                    lastTransition>>
  \/ /\ ChooseEncodingParameters
     /\ monAfter("quiet", 0)
     /\ UNCHANGED <<taskVars, fixVars, wrLog, sc, lastCall,
                    lastTransition>>
  \/ /\ Tick
     /\ monAfter("quiet", 0)
     /\ UNCHANGED <<taskVars, fixVars, wrLog, sc, lastCall,
                    lastTransition>>

SpecPolicy == InitPolicy /\ [][NextPolicy]_vars

\* The uplink policy under samples, index updates, commits and the passing
\* of time, with a record of the sample or the index reading of the last call.
NextMetric ==
  \/ /\ \E metric \in Metrics :
          /\ updateConnectionMetric(metric)
          /\ metricFrame
          /\ lastCall' = [op |-> IF metric.isNaN THEN "nan" ELSE "sample",
                          uplinkKbps |-> metric.uplinkKbps,
                          before |-> PolicyFields]
     /\ UNCHANGED <<taskVars, fixVars, wrLog, mon, sc,
                    lastTransition>>
  \/ /\ \E reading \in IndexReadings :
          /\ updateIndex(reading)
          /\ indexFrame
          /\ lastCall' = [op |-> "index", reading |-> reading,
                          before |-> PolicyFields]
     /\ UNCHANGED <<taskVars, fixVars, wrLog, mon, sc,
                    lastTransition>>
  \/ /\ ChooseEncodingParameters
     /\ lastCall' = NoCall
     /\ UNCHANGED <<taskVars, fixVars, wrLog, mon, sc,
                    lastTransition>>
  \/ /\ Tick
     /\ lastCall' = NoCall
     /\ UNCHANGED <<taskVars, fixVars, wrLog, mon, sc,
                    lastTransition>>

SpecMetric == InitPolicy /\ [][NextMetric]_vars

\* Samples at and next to every threshold of the layer decision and of its
\* gate, and stream indexes at and next to its sender limits.
DecisionSamples == {0, 239, 240, 299, 300, 349, 350, 699, 700, 999, 1000, 2399, 2400}

DecisionReadings == [publishersExcludingSelf : {3, 4, 5, 6}, participants : {2, 3}]

\* What calculateEncodingParameters may assign or compare with, before a call.
ProposalFields ==
  [numSenders |-> numSenders,
   shouldDisableSimulcast |-> shouldDisableSimulcast,
   newActiveStreams |-> newActiveStreams,
   newQualityMap |-> newQualityMap]

\* Bounds of the clock of the layer-decision runs.
DecisionTickMs == 4000
MaxDecisionTimeMs == 13000

\* The uplink policy under threshold samples, index updates, commits and the
\* passing of time, with a record of the last call.
NextDecision ==
  \/ /\ \E uplinkKbps \in DecisionSamples :
          /\ updateConnectionMetric([isNaN |-> FALSE, uplinkKbps |-> uplinkKbps])
          /\ metricFrame
          /\ lastCall' = [op |-> "sample", uplinkKbps |-> uplinkKbps,
                          before |-> ProposalFields]
     /\ UNCHANGED <<taskVars, fixVars, wrLog, mon, sc,
                    lastTransition>>
  \/ /\ \E reading \in DecisionReadings :
          /\ updateIndex(reading)
          /\ indexFrame
          /\ lastCall' = [op |-> "index", reading |-> reading,
                          before |-> ProposalFields]
     /\ UNCHANGED <<taskVars, fixVars, wrLog, mon, sc,
                    lastTransition>>
  \/ /\ ChooseEncodingParameters
     /\ lastCall' = NoCall
     /\ UNCHANGED <<taskVars, fixVars, wrLog, mon, sc,
                    lastTransition>>
  \/ /\ advance(DecisionTickMs, MaxDecisionTimeMs)
     /\ lastCall' = NoCall
     /\ UNCHANGED <<taskVars, fixVars, wrLog, mon, sc,
                    lastTransition>>

SpecDecision == InitPolicy /\ [][NextDecision]_vars

\* Samples below, at and above the rates that shorten the hold-down time.
HoldDownSamples == {100, 240, 700, 750}

HoldDownReadings == [publishersExcludingSelf : {2, 4}, participants : {2, 3}]

\* The uplink policy under samples, index updates, resubscription queries,
\* commits and the passing of time, with a record of the last call and of the
\* time wantsResubscribe() last returned true.
NextHoldDown ==
  \/ /\ \E uplinkKbps \in HoldDownSamples :
          /\ updateConnectionMetric([isNaN |-> FALSE, uplinkKbps |-> uplinkKbps])
          /\ metricFrame
          /\ lastCall' = [op |-> "sample", uplinkKbps |-> uplinkKbps,
                          before |-> ProposalFields]
     /\ UNCHANGED <<taskVars, fixVars, wrLog, mon, sc, lastTransition>>
  \/ /\ \E reading \in HoldDownReadings :
          /\ updateIndex(reading)
          /\ indexFrame
          /\ lastCall' = [op |-> "index", reading |-> reading,
                          before |-> ProposalFields]
     /\ UNCHANGED <<taskVars, fixVars, wrLog, mon, sc, lastTransition>>
  \/ /\ \E descriptions \in TrackedDescriptions :
          /\ wantsResubscribe(descriptions)
          /\ wantsFrame
          /\ lastTransition' = IF videoIndex # "null" /\ constraintDiff(descriptions)
                               THEN now
                               ELSE lastTransition
     /\ lastCall' = NoCall
     /\ UNCHANGED <<taskVars, fixVars, wrLog, mon, sc>>
  \/ /\ ChooseEncodingParameters
     /\ lastCall' = NoCall
     /\ UNCHANGED <<taskVars, fixVars, wrLog, mon, sc, lastTransition>>
  \/ /\ Tick
     /\ lastCall' = NoCall
     /\ UNCHANGED <<taskVars, fixVars, wrLog, mon, sc, lastTransition>>

SpecHoldDown == InitPolicy /\ [][NextHoldDown]_vars

\* The uplink policy under index updates, resubscription queries and commits,
\* with a log of the values wantsResubscribe() returned.
NextResubscribe ==
  \/ /\ UpdateIndex
     /\ wrAfterStep(FALSE)
     /\ UNCHANGED <<taskVars, fixVars, mon, sc, lastCall,
                    lastTransition>>
  \/ /\ \E descriptions \in DescriptionLists :
          /\ wantsResubscribe(descriptions)
          /\ wantsFrame
          /\ wrAfterCall(descriptions)
     /\ UNCHANGED <<taskVars, fixVars, mon, sc, lastCall,
                    lastTransition>>
  \/ /\ ChooseEncodingParameters
     /\ wrAfterStep(TRUE)
     /\ UNCHANGED <<taskVars, fixVars, mon, sc, lastCall,
                    lastTransition>>

SpecResubscribe == InitPolicy /\ [][NextResubscribe]_vars

\* The uplink policy and its observers: commits, registrations, removals and
\* the scheduler's dispatch steps, with index updates that change the proposal.
NextObservers ==
  \/ UpdateIndex /\ UNCHANGED <<taskVars, fixVars, historyVars>>
  \/ ChooseEncodingParameters /\ UNCHANGED <<taskVars, fixVars, historyVars>>
  \/ AddObserver /\ UNCHANGED <<taskVars, fixVars, historyVars>>
  \/ RemoveObserver /\ UNCHANGED <<taskVars, fixVars, historyVars>>
  \/ Dispatch /\ UNCHANGED <<taskVars, fixVars, historyVars>>

SpecObservers == InitPolicy /\ [][NextObservers]_vars

\* Stream indexes that give Hi, and MidAndLow with either middle bitrate.
PublishReadings == [publishersExcludingSelf : {4, 6}, participants : {2, 3}]

\* The uplink policy and its observers under index updates, commits,
\* registrations, removals and the scheduler's dispatch steps.
NextPublish ==
  \/ /\ \E reading \in PublishReadings : updateIndex(reading) /\ indexFrame
     /\ UNCHANGED <<taskVars, fixVars, historyVars>>
  \/ ChooseEncodingParameters /\ UNCHANGED <<taskVars, fixVars, historyVars>>
  \/ AddObserver /\ UNCHANGED <<taskVars, fixVars, historyVars>>
  \/ RemoveObserver /\ UNCHANGED <<taskVars, fixVars, historyVars>>
  \/ Dispatch /\ UNCHANGED <<taskVars, fixVars, historyVars>>

SpecPublish == InitPolicy /\ [][NextPublish]_vars

\* The end-to-end scenario: the index reports three senders (two besides
\* self) among three participants, then four samples are fed, each followed
\* by chooseEncodingParameters and more than the hold-down duration after the
\* one before; wantsResubscribe() may be called at any time and finds the
\* local stream unchanged.
ScenarioSamples == <<1200, 1200, 650, 650>>

ScenarioReading == [publishersExcludingSelf |-> 2, participants |-> 3]

ScenarioDescriptions == <<[streamId |-> 1, disabledByWebRTC |-> FALSE]>>

NextScenario ==
  \/ /\ videoIndex = "null"
     /\ updateIndex(ScenarioReading)
     /\ indexFrame
     /\ UNCHANGED <<taskVars, fixVars, historyVars>>
  \/ /\ videoIndex = "index"
     /\ sc.chosen
     /\ sc.step < Len(ScenarioSamples)
     /\ sc.step = 0 \/ now - sc.lastSampleAt > holdDownDurationMs
     /\ updateConnectionMetric([isNaN |-> FALSE,
                                uplinkKbps |-> ScenarioSamples[sc.step + 1]])
     /\ metricFrame
     /\ sc' = [sc EXCEPT !.step = @ + 1, !.chosen = FALSE, !.lastSampleAt = now]
     /\ UNCHANGED <<taskVars, fixVars, wrLog, mon, lastCall,
                    lastTransition>>
  \/ /\ ~sc.chosen
     /\ ChooseEncodingParameters
     /\ sc' = [sc EXCEPT !.chosen = TRUE,
                         !.log = Append(@, currentActiveStreams')]
     /\ UNCHANGED <<taskVars, fixVars, wrLog, mon, lastCall,
                    lastTransition>>
  \/ /\ videoIndex = "index"
     /\ wantsResubscribe(ScenarioDescriptions)
     /\ wantsFrame
     /\ UNCHANGED <<taskVars, fixVars, historyVars>>
  \/ /\ advance(ScenarioTickMs, MaxScenarioTimeMs)
     /\ UNCHANGED <<taskVars, fixVars, historyVars>>

SpecScenario == InitPolicy /\ [][NextScenario]_vars

InitTask ==
  ctx \in Contexts /\ TaskConstructed /\ FixParked /\ PolicyConstructed /\ HistoryEmpty

NextTask ==
  \/ RunExchange /\ UNCHANGED <<fixVars, policyVars, historyVars>>
  \/ RunResume /\ UNCHANGED <<fixVars, policyVars, historyVars>>
  \/ Cancel /\ UNCHANGED <<fixVars, policyVars, historyVars>>
  \/ Deliver /\ UNCHANGED <<fixVars, policyVars, historyVars>>

\* The session contexts used to explore the exchange: the exchange that
\* follows the request reads none of these flags.
ExchangeContexts ==
  {c \in Contexts : c.requiresUnifiedPlan /\ c.videoDuplexMode = "DUPLEX"}

InitExchange ==
  /\ ctx \in ExchangeContexts
  /\ TaskConstructed /\ FixParked /\ PolicyConstructed /\ HistoryEmpty

SpecTask == InitExchange /\ [][NextTask]_vars

\* The continuation of an await runs once the awaited promise has settled.
FairSpecTask ==
  SpecTask /\ WF_vars(RunResume /\ UNCHANGED <<fixVars, policyVars, historyVars>>)

\* The subscribe request of run(), over every session context in the bounds.
NextSubscribe == Run /\ UNCHANGED <<fixVars, policyVars, historyVars>>

SpecSubscribe == InitTask /\ [][NextSubscribe]_vars

InitFix ==
  /\ ctx = [requiresUnifiedPlan |-> TRUE, requiresUnifiedPlanMunging |-> FALSE,
            enableSimulcast |-> TRUE, videoDuplexMode |-> "DUPLEX"]
  /\ TaskConstructed
  /\ FixInputs
  /\ PolicyConstructed
  /\ HistoryEmpty

NextFix ==
  \/ FixApply /\ UNCHANGED <<taskVars, policyVars, historyVars>>
  \/ FixApplyAgain /\ UNCHANGED <<taskVars, policyVars, historyVars>>

SpecFix == InitFix /\ [][NextFix]_vars

\* ------------------------------------------------------------------------
\* Properties of the subscribe/acknowledge exchange
\* ------------------------------------------------------------------------
Registered == "interceptor" \in clientObservers

\* C1: when a connection-termination event is handled while run() waits for
\* the acknowledgement, that same step rejects the wait and removes the
\* interceptor from the signaling client's observers.
C1_TerminationRejectsAndUnregisters ==
  tLastOp = "terminated" => (ackPromise = "rejected" /\ ~Registered)

\* Once cancel() has rejected the pending wait: the wait is rejected with the
\* cancellation error, the interceptor is unregistered, the run has not
\* succeeded and no answer was stored.
CanceledStaysCanceled ==
  canceledWhilePending =>
    /\ ackPromise = "rejected"
    /\ ackValue = "canceled"
    /\ ~Registered
    /\ tRun \in {"waiting", "failed"}
    /\ sdpAnswer = "none"

\* C2: cancel() called while run() waits rejects the wait with the
\* cancellation error and unregisters the interceptor; from then on the run
\* cannot succeed, whatever arrives later (a SUBSCRIBE_ACK included), and
\* run() ends as a failure.
C2_CancelWhileWaiting ==
  /\ []CanceledStaysCanceled
  /\ (canceledWhilePending ~> tRun = "failed")

C2_Witness ==
  canceledWhilePending /\ ackAfterCancel /\ tRun = "failed" /\ tLastOp = "undelivered"

\* The outcomes one invocation of run() has reached.
OutcomesReached ==
  {o \in {"Acked", "Terminated", "Canceled"} :
     \/ o = "Acked" /\ ackPromise = "resolved"
     \/ o = "Terminated" /\ Len(statusLog) > 0
     \/ o = "Canceled" /\ ackPromise = "rejected"}

\* C3: Acked, Terminated and Canceled are terminal and mutually exclusive:
\* once one is reached no other becomes reachable; in particular a run whose
\* connection termination was handled cannot complete successfully.
C3_OutcomesExclusive ==
  /\ Cardinality(OutcomesReached) <= 1
  /\ ~(Len(statusLog) > 0 /\ tRun = "succeeded")

\* A request whose subscription array lines up with the video sections of
\* its SDP: one entry per section, 0 at every section that is not recvonly.
Aligned(request) ==
  LET directions == videoSectionDirections(request.sdp)
  IN /\ Len(request.videoSubscriptions) = Len(directions)
     /\ \A i \in 1..Len(directions) :
          directions[i] # "recvonly" => request.videoSubscriptions[i] = 0

NonZeroPositions(subs) == {p \in 1..Len(subs) : subs[p] # 0}

\* The k-th non-zero value of subs (k in 1..number of non-zero values).
KthNonZero(subs, k) ==
  LET p == CHOOSE q \in NonZeroPositions(subs) :
             Cardinality({r \in NonZeroPositions(subs) : r <= q}) = k
  IN subs[p]

\* How many recvonly sections there are up to and including section i.
RecvRank(directions, i) ==
  Cardinality({j \in 1..i : directions[j] = "recvonly"})

ExpectedEntry(directions, subs, i) ==
  IF directions[i] = "recvonly" /\
     RecvRank(directions, i) <= Cardinality(NonZeroPositions(subs))
  THEN KthNonZero(subs, RecvRank(directions, i))
  ELSE 0

\* C5: fixUpSubscriptionOrder returns one entry per section in section
\* order: 0 at every section that is not recvonly, the k-th non-zero input
\* value at the k-th recvonly section, 0 at recvonly sections beyond the
\* non-zero input values.
C5_FixUpResult ==
  fxDone =>
    /\ Len(fxResult) = Len(fxDirections)
    /\ \A i \in 1..Len(fxDirections) :
         fxResult[i] = ExpectedEntry(fxDirections, fxSubscriptions, i)

C5_Witness ==
  /\ fxDone
  /\ fxDirections = <<"recvonly", "sendonly", "recvonly">>
  /\ fxSubscriptions = <<0, 2, 0>>
  /\ fxResult = <<2, 0, 0>>

CurrentChanged ==
  \/ currentActiveStreams' # currentActiveStreams
  \/ currentQualityMap' # currentQualityMap

\* C6: the current layer set and the current parameter map change only in a
\* chooseEncodingParameters step, where they become the proposed ones; a step
\* of updateConnectionMetric, updateIndex, wantsResubscribe, addObserver or
\* removeObserver leaves both unchanged.
C6_CurrentChangesOnlyOnCommit ==
  [][/\ CurrentChanged =>
          /\ ChooseEncodingParameters
          /\ currentActiveStreams' = newActiveStreams
          /\ currentQualityMap' = newQualityMap
     /\ (\/ UpdateConnectionMetric
         \/ UpdateIndex
         \/ WantsResubscribe
         \/ AddObserver
         \/ RemoveObserver) => ~CurrentChanged]_vars

C6_Witness ==
  /\ currentActiveStreams = "kMidAndLow"
  /\ currentQualityMap = newQualityMap
  /\ currentQualityMap["mid"].maxBitrate = 600000
  /\ lastUplinkBandwidthKbps = 650
  /\ ~shouldDisableSimulcast

\* C7: in a run that starts with current = proposed = HiAndLow and simulcast
\* enabled and is made only of updateConnectionMetric and
\* chooseEncodingParameters calls, samples of 650 or 750 kbps that arrive
\* inside the hold-down window never change the committed layer set: it is
\* HiAndLow until a sample <= 700 kbps has arrived outside the window.
C7_HysteresisHolds ==
  (~mon.excluded /\ ~mon.lowOutside) => currentActiveStreams = "kHiAndLow"

C7_Witness ==
  /\ ~mon.excluded
  /\ mon.heldLow
  /\ mon.lowOutside
  /\ currentActiveStreams = "kMidAndLow"
  /\ lastUplinkBandwidthKbps = 650

\* C8 (as stated): the committed layer sets after the four samples are
\* HiAndLow, HiAndLow, HiAndLow, MidAndLow.
C8_ScenarioAsStated ==
  Len(sc.log) = Len(ScenarioSamples) =>
    sc.log = <<"kHiAndLow", "kHiAndLow", "kHiAndLow", "kMidAndLow">>

\* C8 (amended): the committed layer sets after the four samples are
\* HiAndLow, HiAndLow, MidAndLow, MidAndLow: the third sample is already
\* outside the hold-down window.
C8_ScenarioOfTheCode ==
  \A i \in 1..Len(sc.log) :
    sc.log[i] = <<"kHiAndLow", "kHiAndLow", "kMidAndLow", "kMidAndLow">>[i]

C8_Witness ==
  /\ Len(sc.log) = Len(ScenarioSamples)
  /\ sc.log[3] = "kMidAndLow"
  /\ lastUplinkBandwidthKbps = 650

C10_RemovedObserverNeverFires == lastFired.registered

C10_Witness ==
  /\ lastFired.skipped = "a"
  /\ lastFired.observer = "b"
  /\ ~InQueue("a")
  /\ InQueue("b")

\* C11: while no stream index has been supplied, no call of the policy raises
\* an error: updateConnectionMetric and wantsResubscribe return normally.
C11_NoErrorWithoutIndex == videoIndex = "null" => ~threw

\* The layer decision as the specification states it.
StatedDecision(disable, senders, uplinkKbps) ==
  IF disable THEN "kHi"
  ELSE IF senders <= 4 /\ uplinkKbps >= 700 THEN "kHiAndLow"
  ELSE IF uplinkKbps >= 240 THEN "kMidAndLow"
  ELSE "kLow"

SampleAtHi ==
  /\ lastCall.op = "sample"
  /\ lastCall.before.currentActiveStreams = "kHi"

\* C12 (as stated): while the current layer set is Hi, a sample outside the
\* hold-down window whose effective uplink is higher than the uplink recorded
\* before has the layer decision re-evaluated.
C12_IncreaseReevaluatedAtHi ==
  (/\ SampleAtHi
   /\ ~InsideHoldDown(lastCall.uplinkKbps)
   /\ lastUplinkBandwidthKbps > lastCall.before.lastUplinkBandwidthKbps)
  => newActiveStreams =
       StatedDecision(shouldDisableSimulcast, numSenders, lastUplinkBandwidthKbps)

\* C12 (amended): while the current layer set is Hi, a sample whose effective
\* uplink is positive never has the layer decision re-evaluated: the proposed
\* layer set and parameter map stay as they were, also when the uplink
\* increased outside the hold-down window.
C12_NoReevaluationAtHi ==
  (SampleAtHi /\ lastUplinkBandwidthKbps > 0)
  => /\ newActiveStreams = lastCall.before.newActiveStreams
     /\ newQualityMap = lastCall.before.newQualityMap

C12_Witness ==
  /\ SampleAtHi
  /\ ~InsideHoldDown(lastCall.uplinkKbps)
  /\ lastCall.before.lastUplinkBandwidthKbps = 100
  /\ lastUplinkBandwidthKbps = 1200
  /\ ~shouldDisableSimulcast
  /\ numSenders = 3
  /\ newActiveStreams = "kLow"

\* Exactly one layer of the map is active, at 1200 kbps and unscaled.
SingleLayerAt1200(map) ==
  \E ridName \in RidNames :
    /\ map[ridName].active
    /\ map[ridName].maxBitrate = 1200 * 1000
    /\ map[ridName].scaleResolutionDownBy = 1
    /\ \A other \in RidNames \ {ridName} : ~map[other].active

\* C13: after an updateIndex call that reports 0, 1 or 2 participants,
\* shouldDisableSimulcast is true and the proposed parameter map has exactly
\* one active layer, with maxBitrate 1200 kbps and scaleResolutionDownBy 1,
\* whatever the uplink, the sender count, the current layer set and the
\* hold-down state were.
C13_FewParticipantsGiveSingleLayer ==
  (lastCall.op = "index" /\ lastCall.reading.participants \in 0..2)
  => /\ shouldDisableSimulcast
     /\ SingleLayerAt1200(newQualityMap)

C13_Witness ==
  /\ lastCall.op = "index"
  /\ lastCall.reading.participants = 2
  /\ ~lastCall.before.shouldDisableSimulcast
  /\ lastCall.before.numSenders = 5
  /\ currentActiveStreams = "kLow"
  /\ lastUplinkBandwidthKbps = 100
  /\ InsideHoldDown(100)
  /\ SingleLayerAt1200(newQualityMap)

\* C14: a valid sample that arrives less than 6000 ms after the first valid
\* sample is recorded as 1200 kbps whatever its value; from 6000 ms on the
\* recorded uplink is the raw sample.
C14_StartupGrace ==
  lastCall.op = "sample" =>
    lastUplinkBandwidthKbps =
      (IF now - startTimeMs < 6000 THEN 1200 ELSE lastCall.uplinkKbps)

C14_Witness ==
  /\ lastCall.op = "sample"
  /\ lastCall.uplinkKbps = 100
  /\ now - startTimeMs > 0
  /\ now - startTimeMs < 6000
  /\ lastUplinkBandwidthKbps = 1200

\* C15: updateConnectionMetric with a NaN uplink changes no field of the
\* policy: start time, last uplink, last-transition time, the proposed and
\* the current layer sets and parameter maps are as before the call.
C15_NaNChangesNothing == lastCall.op = "nan" => PolicyFields = lastCall.before

C15_Witness ==
  /\ lastCall.op = "nan"
  /\ startTimeMs = 0
  /\ now > lastUpdatedMs + 8000
  /\ videoIndex = "index"
  /\ newActiveStreams = "kMidAndLow"
  /\ currentActiveStreams = "kHiAndLow"

\* C16: once cancel() was called on a waiting run, the teardown was performed
\* once, by that call: however many cancel() calls follow, removeObserver was
\* called once on the signaling client, and a later call leaves the wait as
\* the first call left it.
C16_TeardownByFirstCancelOnly ==
  canceledWhilePending =>
    /\ removeObserverCalls = 1
    /\ tLastOp \in {"cancel", "cancelNoop"} =>
         (ackPromise = "rejected" /\ ackValue = "canceled" /\ ~Registered)

C16_Witness ==
  /\ canceledWhilePending
  /\ tLastOp = "cancelNoop"
  /\ tRun = "failed"
  /\ removeObserverCalls = 1

\* C17: a cancel() call made after run() has succeeded on the acknowledgement
\* does not call removeObserver on the signaling client again and leaves the
\* outcome and the session state as they were.
C17_CancelAfterAckIsNoop ==
  (tRun = "succeeded" /\ tLastOp \in {"cancel", "cancelNoop"}) =>
    /\ removeObserverCalls = 1
    /\ ackPromise = "resolved"
    /\ sdpAnswer = ackValue

\* C18: every status passed to the status handler for a termination event is
\* SignalingInternalServerError if the close code c of the event satisfies
\* 4500 <= c < 4600, and TaskFailed otherwise.
C18_CloseCodeClassification ==
  \A i \in 1..Len(statusLog) :
    statusLog[i].statusCode =
      (IF 4500 <= statusLog[i].closeCode /\ statusLog[i].closeCode < 4600
       THEN "SignalingInternalServerError"
       ELSE "TaskFailed")

C18_Witness ==
  /\ Len(statusLog) = 2
  /\ statusLog[1] = [statusCode |-> "SignalingInternalServerError", closeCode |-> 4599]
  /\ statusLog[2] = [statusCode |-> "TaskFailed", closeCode |-> 4600]

\* C19: within one exchange the status handler is invoked at most once,
\* however many termination events are delivered.
C19_StatusHandlerAtMostOnce == Len(statusLog) <= 1

\* C20: fixUpSubscriptionOrder is idempotent: applied to its own result with
\* the same SDP it returns that result unchanged, for every SDP and every
\* input array.
C20_FixUpIdempotent == fxAgain.done => fxAgain.result = fxResult

C20_Witness ==
  /\ fxAgain.done
  /\ fxDirections = <<"sendonly", "recvonly", "recvonly">>
  /\ fxSubscriptions = <<1, 0, 2>>
  /\ fxResult = <<0, 1, 2>>
  /\ fxAgain.result = <<0, 1, 2>>

\* An event that is neither a connection termination nor a SUBSCRIBE_ACK frame.
OtherEvent(event) ==
  /\ ~isConnectionTerminated(event)
  /\ ~(event.type = "ReceivedSignalFrame" /\ event.frameType = "SUBSCRIBE_ACK")

\* C21: while run() waits, handling a signaling event that is neither a
\* connection termination nor a SUBSCRIBE_ACK frame leaves the exchange as it
\* was: the wait stays unsettled, the interceptor stays registered, the status
\* handler is not called and the stored answer SDP is not modified.
C21_OtherEventsIgnored ==
  [][\A event \in SignalingEvents :
       (/\ tRun = "waiting"
        /\ Registered
        /\ OtherEvent(event)
        /\ handleSignalingClientEvent(event))
       => /\ ackPromise = "pending"
          /\ UNCHANGED <<ackPromise, ackValue, clientObservers,
                         removeObserverCalls, statusLog, sdpAnswer, tRun>>]_vars

C21_Witness ==
  /\ tLastOp = "ignored"
  /\ tRun = "waiting"
  /\ ackPromise = "pending"
  /\ Registered
  /\ statusLog = <<>>

\* C28: a cancel() call made before run() is not remembered: it changes
\* nothing of the task or the signaling client, and a run() started after it
\* sends the subscribe request, registers the interceptor and waits for the
\* acknowledgement as a run() that no cancel() preceded.
C28_EarlyCancelNotRemembered ==
  canceledWhileIdle =>
    /\ tRun = "idle" =>
         /\ taskCanceler = "null"
         /\ ackPromise = "none"
         /\ clientObservers = {}
         /\ removeObserverCalls = 0
         /\ sentSubscribes = <<>>
    /\ tLastOp = "run" =>
         /\ tRun = "waiting"
         /\ ackPromise = "pending"
         /\ Registered
         /\ taskCanceler = "interceptor"
         /\ Len(sentSubscribes) = 1
         /\ removeObserverCalls = 0
         /\ ~canceledWhilePending

C28_Witness ==
  /\ canceledWhileIdle
  /\ tLastOp = "run"
  /\ tRun = "waiting"
  /\ ackPromise = "pending"
  /\ Len(sentSubscribes) = 1

\* The last step was a call that reached calculateEncodingParameters: an
\* updateIndex call, or a sample that was not held down.
Recalculated ==
  \/ lastCall.op = "index"
  \/ lastCall.op = "sample" /\ ~InsideHoldDown(lastCall.uplinkKbps)

\* The call was forced: an updateIndex call that changed the sender count or
\* the simulcast-disable flag.
Forced ==
  /\ lastCall.op = "index"
  /\ \/ lastCall.reading.publishersExcludingSelf + 1 # lastCall.before.numSenders
     \/ (lastCall.reading.participants \in 0..2) # lastCall.before.shouldDisableSimulcast

StatedIncrease(current) ==
  IF current = "kHiAndLow" THEN 2400
  ELSE IF current = "kMidAndLow" THEN 1000
  ELSE 300

StatedDecrease(current) ==
  IF current = "kHiAndLow" THEN 700
  ELSE IF current = "kMidAndLow" THEN 240
  ELSE 0

StatedGate ==
  \/ Forced
  \/ lastUplinkBandwidthKbps >= StatedIncrease(currentActiveStreams)
  \/ lastUplinkBandwidthKbps <= StatedDecrease(currentActiveStreams)

StatedBitrates(senders, uplinkKbps) ==
  IF senders <= 4 /\ uplinkKbps >= 700 THEN <<300, 0, 1200>>
  ELSE IF uplinkKbps >= 240
  THEN <<IF uplinkKbps >= 350 THEN 200 ELSE 150, IF senders <= 6 THEN 600 ELSE 350, 0>>
  ELSE <<300, 0, 0>>

KbpsOf(map) ==
  <<map["low"].maxBitrate, map["mid"].maxBitrate, map["hi"].maxBitrate>>

TimesThousand(kbps) == [i \in 1..3 |-> kbps[i] * 1000]

\* C22: after a call that reached calculateEncodingParameters while the
\* current layer set is HiAndLow, MidAndLow or Low: if the call was forced, or
\* the uplink is at or above the increase threshold of the current layer set,
\* or at or below its decrease threshold (2400/700, 1000/240, 300/0), then with
\* simulcast enabled the proposed layer set and bitrates are HiAndLow
\* [300, 0, 1200] for senders <= 4 and uplink >= 700, else MidAndLow
\* [200 or 150, 600 or 350, 0] for uplink >= 240, else Low [300, 0, 0];
\* otherwise the proposed layer set and map are what they were before the call.
C22_DecisionTableAndGate ==
  (Recalculated /\ currentActiveStreams # "kHi") =>
    IF StatedGate
    THEN ~shouldDisableSimulcast =>
           /\ newActiveStreams =
                StatedDecision(FALSE, numSenders, lastUplinkBandwidthKbps)
           /\ KbpsOf(newQualityMap) =
                TimesThousand(StatedBitrates(numSenders, lastUplinkBandwidthKbps))
    ELSE /\ newActiveStreams = lastCall.before.newActiveStreams
         /\ newQualityMap = lastCall.before.newQualityMap

C22_Witness ==
  /\ lastCall.op = "sample"
  /\ ~InsideHoldDown(lastCall.uplinkKbps)
  /\ currentActiveStreams = "kMidAndLow"
  /\ lastUplinkBandwidthKbps = 1000
  /\ numSenders = 4
  /\ ~shouldDisableSimulcast
  /\ lastCall.before.newActiveStreams = "kMidAndLow"
  /\ newActiveStreams = "kHiAndLow"
  /\ KbpsOf(newQualityMap) = <<300000, 0, 1200000>>

StatedHoldTime(current, rawKbps) ==
  IF current = "kLow" THEN 8000
  ELSE IF \/ (current = "kMidAndLow" /\ rawKbps <= 240)
          \/ (current = "kHiAndLow" /\ rawKbps <= 700)
  THEN 2000
  ELSE 4000

ProposalUnchanged ==
  /\ newActiveStreams = lastCall.before.newActiveStreams
  /\ newQualityMap = lastCall.before.newQualityMap

\* C23: a valid sample received at time t with
\* t < lastTransition + H leaves the proposed layer set and the proposed map
\* unchanged, where lastTransition is the construction time or the time of the
\* last wantsResubscribe() call that returned true and H is 8000 ms if the
\* current layer set is Low, 2000 ms if it is MidAndLow and the raw sample is
\* <= 240 or it is HiAndLow and the raw sample is <= 700, and 4000 ms otherwise.
C23_HeldDownSampleKeepsProposal ==
  (/\ lastCall.op = "sample"
   /\ now < lastTransition + StatedHoldTime(currentActiveStreams, lastCall.uplinkKbps))
  => ProposalUnchanged

C23_Witness ==
  /\ lastCall.op = "sample"
  /\ currentActiveStreams = "kLow"
  /\ lastTransition > ClockStartMs
  /\ now >= lastTransition + 4000
  /\ now < lastTransition + 8000
  /\ lastUplinkBandwidthKbps = 750
  /\ newActiveStreams = "kLow"

\* The last call was made inside the hold-down window: for a sample the
\* window of that sample, for an updateIndex call the shortest window the
\* current layer set can have.
InsideWindow ==
  IF lastCall.op = "sample"
  THEN now < lastTransition + StatedHoldTime(currentActiveStreams, lastCall.uplinkKbps)
  ELSE now < lastTransition + (IF currentActiveStreams = "kLow" THEN 8000 ELSE 2000)

\* C25: inside the hold-down window a metric update, or an updateIndex call
\* that changes neither the sender count nor the simulcast-disable flag,
\* leaves the proposed layer set and the proposed map unchanged.
C25_OnlyForcedIndexChangesProposalInHoldDown ==
  (lastCall.op \in {"sample", "index"} /\ InsideWindow /\ ~Forced)
  => ProposalUnchanged

\* The commit is the first one of the policy, or the layer set it commits is
\* not the one committed before.
CommitsOtherLayerSet ==
  \/ activeStreamsToPublish = "undefined"
  \/ newActiveStreams # currentActiveStreams

\* C24: a chooseEncodingParameters step schedules notifications exactly when
\* the layer set it commits differs from the last published one, the first
\* commit always counting as different: then one per observer registered at
\* that moment, in their order, after the callbacks already waiting; a commit
\* of the same layer set, also with other bitrates, schedules none.
C24_PublishesOnLayerSetChangeOnly ==
  [][ChooseEncodingParameters =>
       IF CommitsOtherLayerSet
       THEN /\ Len(scheduled') = Len(scheduled) + Len(observerQueue)
            /\ SubSeq(scheduled', 1, Len(scheduled)) = scheduled
            /\ \A i \in 1..Len(observerQueue) :
                 scheduled'[Len(scheduled) + i].observer = observerQueue[i]
            /\ activeStreamsToPublish' = newActiveStreams
       ELSE /\ scheduled' = scheduled
            /\ activeStreamsToPublish' = activeStreamsToPublish]_vars

C24_Witness ==
  /\ observerQueue = <<"a", "b">>
  /\ currentActiveStreams = "kMidAndLow"
  /\ activeStreamsToPublish = "kMidAndLow"
  /\ Len(scheduled) = 2
  /\ scheduled[1] = [observer |-> "a", layers |-> "LowAndMedium"]
  /\ scheduled[2] = [observer |-> "b", layers |-> "LowAndMedium"]
  /\ lastFired.layers = "LowAndHigh"

\* C26: in every reachable state shouldDisableSimulcast is true if and only
\* if the proposed layer set is Hi.
C26_DisabledIffProposedHi ==
  shouldDisableSimulcast <=> (newActiveStreams = "kHi")

C26_Witness ==
  /\ videoIndex = "index"
  /\ ~shouldDisableSimulcast
  /\ currentActiveStreams = "kHi"
  /\ newActiveStreams = "kMidAndLow"
  /\ lastUplinkBandwidthKbps = 650

\* The layers a layer set keeps active, as stated.
StatedActiveLayers(streams) ==
  IF streams = "kHi" THEN {"mid"}
  ELSE IF streams = "kHiAndLow" THEN {"low", "hi"}
  ELSE IF streams = "kMidAndLow" THEN {"low", "mid"}
  ELSE {"low"}

MapAgrees(streams, map) ==
  /\ DOMAIN map = {"low", "mid", "hi"}
  /\ {rid \in DOMAIN map : map[rid].active} = StatedActiveLayers(streams)
  /\ \A rid \in DOMAIN map :
       /\ map[rid].active = (map[rid].maxBitrate > 0)
       /\ map[rid].maxBitrate % 1000 = 0

\* C27: in every reachable state the proposed map agrees with the proposed
\* layer set and the current map with the current layer set: the active
\* layers are {mid} for Hi, {low, hi} for HiAndLow, {low, mid} for MidAndLow
\* and {low} for Low, and every layer has active = (maxBitrate > 0) with
\* maxBitrate a multiple of 1000.
C27_MapsAgreeWithLayerSets ==
  /\ MapAgrees(newActiveStreams, newQualityMap)
  /\ MapAgrees(currentActiveStreams, currentQualityMap)

C27_Witness ==
  /\ newActiveStreams = "kLow"
  /\ KbpsOf(newQualityMap) = <<300000, 0, 0>>
  /\ currentActiveStreams = "kMidAndLow"
  /\ KbpsOf(currentQualityMap) = <<200000, 600000, 0>>

====
